---------------------------- MODULE Spec2Model ----------------------------
(***************************************************************************)
(* The tool-augmented conversation orchestrator of ts-mcp-client-server:   *)
(* class LLM of src/llm.ts (processComplexQuery, processMessage, the       *)
(* transcript and its sanitizer) together with MCPClient.callTool of       *)
(* src/chat.ts, which it uses to reach the tool host.                      *)
(*                                                                         *)
(* A text is a sequence of characters; " " and "\n" are whitespace.  The   *)
(* fixed messages of the program are one-character texts whose character   *)
(* is the whole message.  The model service and the tool host are the      *)
(* environment: their answers are drawn from small sets.                   *)
(*                                                                         *)
(* Spec runs invocations of both methods one after the other; SpecRuns     *)
(* adds clearHistory between them; SpecTranscript applies the sanitizer    *)
(* and getHistory to any short transcript; SpecChat is a session of        *)
(* ChatCLI: start, initialize, then the lines entered at the prompt.       *)
(***************************************************************************)
EXTENDS Integers, Sequences, FiniteSets, TLC

\* ------------------------------------------------------------------ bounds
\* Most content blocks the model service produces in one behaviour.
MaxBlocks == 3
\* Most turns of the transcript; an invocation starts only when the turns it
\* may append still fit.
MaxHistory == 6
\* Most turns of a transcript handed to the sanitizer on its own.
MaxTurns == 3
\* Most getHistory() calls in a row.
MaxReads == 2
\* Browser tool requests the tool host receives.
MaxRequests == 3

\* ------------------------------------------------------------------- texts
Whitespace == {" ", "\n"}

\* String.prototype.trim().length === 0
IsBlank(t) == \A i \in 1..Len(t) : t[i] \in Whitespace

\* Array.prototype.join(sep) on a sequence of texts
RECURSIVE Join(_, _)
Join(texts, sep) ==
  IF Len(texts) = 0 THEN <<>>
  ELSE IF Len(texts) = 1 THEN texts[1]
  ELSE texts[1] \o sep \o Join(Tail(texts), sep)

\* Texts the model may put in a text block.
Texts == {<<" ">>, <<"a">>}
\* Texts the caller may pass as userMessage.
UserTexts == {<<"q">>}
\* Tool names the model may request.
ToolNames == {"say_hello"}

NoResult == <<"No result">>
NoContentPlaceholder == <<"Tool executed successfully but returned no content">>
ComplexErrorAnswer ==
  <<"I'm sorry, I encountered an error processing your complex request.">>
MessageErrorAnswer ==
  <<"I'm sorry, I encountered an error processing your request.">>
ComplexDetected ==
  <<"Complex multi-tool request detected. Please use the processComplexQuery method for better handling.">>

\* ---------------------------------------------------------- content blocks
TextBlock(t) == [type |-> "text", text |-> t, id |-> <<>>, name |-> ""]
ToolUseBlock(i, n) == [type |-> "tool_use", text |-> <<>>, id |-> i, name |-> n]
ToolResultBlock(i, t) == [type |-> "tool_result", text |-> t, id |-> i, name |-> ""]

\* MessageParam with string content / with an array of content blocks
StringMessage(r, t) == [role |-> r, isString |-> TRUE, text |-> t, content |-> <<>>]
BlockMessage(r, c) == [role |-> r, isString |-> FALSE, text |-> <<>>, content |-> c]

\* ------------------------------------------------------------ environment
\* What the tool host does with one tools/call request: it answers with a
\* content array, answers with a JSON-RPC error, or cannot be reached.
TextItem(t) == [type |-> "text", text |-> t]
ImageItem == [type |-> "image", text |-> <<>>]
HostContents ==
  { <<>>, <<TextItem(<<" ">>)>>, <<ImageItem>>,
    <<TextItem(<<"x">>), TextItem(<<" ">>), TextItem(<<"y">>)>> }
HostOutcomes ==
  { [kind |-> "unreachable", content |-> <<>>], [kind |-> "error", content |-> <<>>] }
    \cup { [kind |-> "ok", content |-> c] : c \in HostContents }
\* Answers of the host's get_logging_mode tool, and failures of that call.
LoggingOutcomes ==
  { [kind |-> "unreachable", content |-> <<>>],
    [kind |-> "ok", content |-> <<>>],
    [kind |-> "ok", content |-> <<TextItem(<<"Current logging mode: ", "verbose">>)>>],
    [kind |-> "ok", content |-> <<TextItem(<<"Current logging mode: ", "quiet">>)>>] }

\* The content arrays the model service may answer with: each block a text
\* block or a tool_use block, at most MaxBlocks blocks over all answers.
\* The service numbers the tool_use blocks; no two blocks of a transcript
\* carry the same number.
BlockShapes ==
  { TextBlock(t) : t \in Texts } \cup { ToolUseBlock(<<>>, n) : n \in ToolNames }
ResponseShapes == UNION { [1..n -> BlockShapes] : n \in 0..MaxBlocks }
WithIds(shape, turns) ==
  [i \in 1..Len(shape) |->
     IF shape[i].type = "tool_use"
     THEN ToolUseBlock(<<turns, i>>, shape[i].name)
     ELSE shape[i]]
\* maxToolRounds values a caller may pass.
RoundChoices == 0..MaxHistory

\* ------------------------------------------------------ MCPClient (chat.ts)
\* MCPClient.callTool: the response on success; on any failure the error
\* is logged and the method returns undefined.  It never throws.
Undefined == [threw |-> FALSE, defined |-> FALSE, content |-> <<>>]
callTool(host) ==
  IF host.kind = "ok"
  THEN [threw |-> FALSE, defined |-> TRUE, content |-> host.content]
  ELSE Undefined

\* MCPClient.listTools: the tools the host lists; on any failure the error
\* is logged and the method returns the empty list.
listTools(host) == IF host.kind = "ok" THEN host.tools ELSE <<>>

\* A tool as the host lists it: inputSchema.properties is a sequence of
\* (key, description, type) entries, absent when hasProperties is FALSE; an
\* empty text stands for a missing description or type.
Tool(n, d, hasProps, props) ==
  [name |-> n, description |-> d, hasProperties |-> hasProps, properties |-> props]
SayHello ==
  Tool("say_hello", <<"Greets a person">>, TRUE,
       << [key |-> "name", description |-> <<"Name to greet">>, type |-> <<"string">>],
          [key |-> "shout", description |-> <<>>, type |-> <<"boolean">>] >>)
GetLoggingMode == Tool("get_logging_mode", <<>>, FALSE, <<>>)
\* What the host may answer to tools/list.
ListToolsOutcomes ==
  { [kind |-> "unreachable", tools |-> <<>>],
    [kind |-> "error", tools |-> <<>>],
    [kind |-> "ok", tools |-> <<SayHello>>],
    [kind |-> "ok", tools |-> <<GetLoggingMode, SayHello>>] }
\* What the host may answer to the connection attempt.
ConnectOutcomes == {"ok", "refused"}

\* ------------------------------------------------------------ LLM (llm.ts)
VARIABLES
  conversationHistory,   \* LLM.conversationHistory, the raw transcript
  verboseLogging,        \* LLM.verboseLogging
  clientVerboseLogging,  \* MCPClient.verboseLogging
  pc,                    \* where the running invocation is suspended
  method,                \* the method invoked last: "none", "complex", "message"
  userMessage,           \* argument of the invocation, until it is pushed
  maxToolRounds,         \* argument of processComplexQuery
  currentRound,          \* local of processComplexQuery
  finalResponse,         \* local of both methods
  response,              \* content of the model response being processed
  idx,                   \* index in response of the tool_use being awaited
  hasToolCalls,          \* local of processComplexQuery
  toolResults,           \* tool_result blocks collected for the response
  messages,              \* the snapshot passed to the model call in flight
  returned,              \* the value the last invocation returned
  runStart,              \* Len(conversationHistory) when the invocation began
  modelCalls,            \* model calls issued by the invocation
  toolCalls,             \* tool calls issued by the invocation for tool_use blocks
  totalBlocks,           \* content blocks the model produced in the session
  modelFailed,           \* a model call of the invocation was rejected
  toolFailed,            \* a tool call of the invocation failed at the host
  inFlight,              \* the external calls issued and not yet settled
  request,               \* system and tools of the model call in flight
  availableTools,        \* LLM.availableTools
  systemPrompt,          \* LLM.systemPrompt
  listToolsCalls,        \* tools/list requests sent in the session
  toolsFetch,            \* how the tools/list request ended: "none" before
  cli,                   \* where ChatCLI is: "none" when the LLM is used alone
  historyCopy,           \* the array the last getHistory() returned
  reads,                 \* getHistory() calls in a row, nothing else in between
  browser,               \* MCPServer.browser: 0 for null, else the session it is connected to
  page,                  \* MCPServer.page: 0 for null, else the session its page belongs to
  sessions,              \* Browserbase sessions created by the tool host
  handler                \* where the handler of each browser tool request is

vars ==
  << conversationHistory, verboseLogging, clientVerboseLogging, pc, method,
     userMessage, maxToolRounds, currentRound, finalResponse, response, idx,
     hasToolCalls, toolResults, messages, returned, runStart, modelCalls,
     toolCalls, totalBlocks, modelFailed, toolFailed, inFlight, request,
     availableTools, systemPrompt, listToolsCalls, toolsFetch, cli,
     historyCopy, reads, browser, page, sessions, handler >>

\* the fields of MCPServer, in the tool host's process
serverVars == <<browser, page, sessions, handler>>
\* what processComplexQuery and processMessage never assign
sessionVars ==
  <<availableTools, systemPrompt, listToolsCalls, toolsFetch, cli, serverVars>>

\* MCPServer after construction: no browser, no page, no request yet
ServerInit ==
  /\ browser = 0
  /\ page = 0
  /\ sessions = 0
  /\ handler = [r \in 1..MaxRequests |-> [at |-> "none", session |-> 0]]
readVars == <<historyCopy, reads>>

\* The external calls: a completion request to the model service, a
\* tools/call request for a tool_use block, the get_logging_mode request.
ModelCall == [kind |-> "model", id |-> <<>>, name |-> ""]
ToolCallOf(block) == [kind |-> "tool", id |-> block.id, name |-> block.name]
LoggingCall == [kind |-> "tool", id |-> <<>>, name |-> "get_logging_mode"]
\* the call whose settling resumes the suspended invocation
Awaited ==
  IF pc = "sync" THEN {LoggingCall}
  ELSE IF pc = "tool" THEN {ToolCallOf(response[idx])}
  ELSE IF pc \in {"model", "model2"} THEN {ModelCall}
  ELSE {}

\* LLM.convertMCPToolsToAnthropicFormat
convertMCPToolsToAnthropicFormat(tools) ==
  [i \in 1..Len(tools) |->
     [name |-> tools[i].name,
      description |->
        IF tools[i].description = <<>>
        THEN <<"MCP tool: ", tools[i].name>>
        ELSE tools[i].description,
      input_schema |->
        [type |-> "object", properties |-> tools[i].properties, required |-> <<>>]]]

\* system and tools of anthropic.messages.create: tools is undefined when
\* the converted list is empty
NoRequest == [sent |-> FALSE, system |-> <<>>, hasTools |-> FALSE, tools |-> <<>>]
ModelRequest(system, tools) ==
  LET converted == convertMCPToolsToAnthropicFormat(tools)
  IN [sent |-> TRUE, system |-> system,
      hasTools |-> Len(converted) > 0, tools |-> converted]

\* LLM.buildSystemPrompt: the parameters line of a tool
ParamText(prop) ==
  <<prop.key, ": ">> \o
    (IF prop.description # <<>> THEN prop.description
     ELSE IF prop.type # <<>> THEN prop.type
     ELSE <<"any">>)
ToolParams(tool) ==
  IF tool.hasProperties
  THEN Join([k \in 1..Len(tool.properties) |-> ParamText(tool.properties[k])],
            <<", ">>)
  ELSE <<"none">>
ToolDescription(tool) ==
  <<"<tool name=\"", tool.name, "\">", "\n", "<description>">>
    \o tool.description
    \o <<"</description>", "\n", "<parameters>">>
    \o ToolParams(tool)
    \o <<"</parameters>", "\n", "</tool>">>
PromptHead == <<"You are an AI assistant ... Available tools:", "\n">>
PromptTail == <<"\n", "\n", "IMPORTANT LOGGING INSTRUCTIONS: ...">>
buildSystemPrompt(tools) ==
  PromptHead
    \o Join([i \in 1..Len(tools) |-> ToolDescription(tools[i])], <<"\n">>)
    \o PromptTail

\* String.prototype.trim().length === 0 for a tool name
NameIsBlank(n) == n \in {"", " "}

HasToolUse(content) == \E i \in 1..Len(content) : content[i].type = "tool_use"

\* LLM.validateMessage
validateMessage(message) ==
  IF message.isString
  THEN ~IsBlank(message.text)
  ELSE /\ Len(message.content) > 0
       /\ \E i \in 1..Len(message.content) :
            LET c == message.content[i] IN
              IF c.type = "text" THEN ~IsBlank(c.text)
              ELSE IF c.type = "tool_result" THEN ~IsBlank(c.text)
              ELSE IF c.type = "tool_use" THEN ~NameIsBlank(c.name)
              ELSE TRUE

RECURSIVE FilterValid(_)
FilterValid(history) ==
  IF Len(history) = 0 THEN <<>>
  ELSE IF validateMessage(history[1])
       THEN <<history[1]>> \o FilterValid(Tail(history))
       ELSE FilterValid(Tail(history))

RECURSIVE DropRepeatedAssistant(_, _)
DropRepeatedAssistant(cleaned, lastRole) ==
  IF Len(cleaned) = 0 THEN <<>>
  ELSE LET message == cleaned[1] IN
    IF /\ lastRole = message.role
       /\ message.role = "assistant"
       /\ (message.isString \/ ~HasToolUse(message.content))
    THEN DropRepeatedAssistant(Tail(cleaned), lastRole)
    ELSE <<message>> \o DropRepeatedAssistant(Tail(cleaned), message.role)

\* cleanConversationHistory without the second pass
cleanConversationHistory_FilterOnly(history) == FilterValid(history)

\* LLM.cleanConversationHistory
cleanConversationHistory(history) ==
  DropRepeatedAssistant(FilterValid(history), "null")

\* for (const content of ...) if (content.type === 'text') text += content.text
RECURSIVE ConcatText(_)
ConcatText(content) ==
  IF Len(content) = 0 THEN <<>>
  ELSE IF content[1].type = "text"
       THEN content[1].text \o ConcatText(Tail(content))
       ELSE ConcatText(Tail(content))

\* content.filter(c => c.type === 'text').map(c => c.text)
RECURSIVE ItemTexts(_)
ItemTexts(content) ==
  IF Len(content) = 0 THEN <<>>
  ELSE IF content[1].type = "text"
       THEN <<content[1].text>> \o ItemTexts(Tail(content))
       ELSE ItemTexts(Tail(content))

\* content.filter(c => c.type === 'text').map(c => c.text)
\*        .filter(text => text && text.trim().length > 0)
RECURSIVE NonBlankTexts(_)
NonBlankTexts(content) ==
  IF Len(content) = 0 THEN <<>>
  ELSE IF content[1].type = "text" /\ ~IsBlank(content[1].text)
       THEN <<content[1].text>> \o NonBlankTexts(Tail(content))
       ELSE NonBlankTexts(Tail(content))

\* ComplexToolResultText without the blank filter and the placeholders
ComplexToolResultText_Unfiltered(mcpResult) ==
  IF mcpResult.defined
  THEN Join(ItemTexts(mcpResult.content), <<"\n">>)
  ELSE <<>>

\* processComplexQuery: the text recorded for a tool call that returned
ComplexToolResultText(mcpResult) ==
  LET resultTexts == NonBlankTexts(mcpResult.content)
      toolResultText ==
        IF mcpResult.defined /\ Len(resultTexts) > 0
        THEN Join(resultTexts, <<"\n">>)
        ELSE NoResult
  IN IF IsBlank(toolResultText) THEN NoContentPlaceholder ELSE toolResultText

\* ComplexToolResult losing the call id when the call produced nothing
ComplexToolResult_LostId(content, mcpResult) ==
  IF mcpResult.defined
  THEN ToolResultBlock(content.id, ComplexToolResultText(mcpResult))
  ELSE ToolResultBlock(<<>>, NoResult)

\* processComplexQuery: the tool_result pushed for one tool_use block, by
\* the try branch when callTool returned and by the catch branch when it threw
ComplexToolResult(content, mcpResult) ==
  IF mcpResult.threw
  THEN ToolResultBlock(content.id, <<"Error executing tool: ", "message">>)
  ELSE ToolResultBlock(content.id, ComplexToolResultText(mcpResult))

\* ComplexToolErrorEscapes without the inner try/catch: a call that produced
\* nothing raises in the loop body
ComplexToolErrorEscapes_NoInnerCatch(mcpResult) ==
  mcpResult.threw \/ ~mcpResult.defined

\* processComplexQuery: whether a failure of the tool call leaves the inner
\* try/catch and reaches the catch of the outer try; the inner catch takes all
ComplexToolErrorEscapes(mcpResult) == FALSE

\* ComplexTextAfter keeping the first text of the invocation
RECURSIVE ComplexTextAfter_KeepFirst(_, _, _, _)
ComplexTextAfter_KeepFirst(content, i, j, text) ==
  IF i >= j \/ text # <<>> THEN text
  ELSE ComplexTextAfter_KeepFirst(content, i + 1, j,
         IF content[i].type = "text" THEN content[i].text ELSE text)

\* processComplexQuery: finalResponse after the text blocks i..j-1 of a response
RECURSIVE ComplexTextAfter(_, _, _, _)
ComplexTextAfter(content, i, j, text) ==
  IF i >= j THEN text
  ELSE ComplexTextAfter(content, i + 1, j,
         IF content[i].type = "text" THEN content[i].text ELSE text)

\* index of the first tool_use block at or after i, Len(content) + 1 if none
RECURSIVE NextToolUse(_, _)
NextToolUse(content, i) ==
  IF i > Len(content) THEN i
  ELSE IF content[i].type = "tool_use" THEN i
  ELSE NextToolUse(content, i + 1)

\* LoopCondition with the comparison off by one
LoopCondition_OffByOne(round, maxRounds) == round <= maxRounds

\* while (currentRound < maxToolRounds)
LoopCondition(round, maxRounds) == round < maxRounds

\* LLM.syncLoggingMode: the flag after the get_logging_mode call settled
Includes(text, word) == \E i \in 1..Len(text) : text[i] = word
SyncedVerbose(result, verbose) ==
  IF result.threw THEN TRUE
  ELSE IF result.defined /\ Len(result.content) > 0
          /\ result.content[1].type = "text" /\ Len(result.content[1].text) > 0
       THEN IF Includes(result.content[1].text, "verbose") THEN TRUE
            ELSE IF Includes(result.content[1].text, "quiet") THEN FALSE
            ELSE verbose
       ELSE verbose
SyncedClientVerbose(result, verbose, clientVerbose) ==
  IF result.threw THEN TRUE
  ELSE IF result.defined /\ Len(result.content) > 0
          /\ result.content[1].type = "text" /\ Len(result.content[1].text) > 0
       THEN SyncedVerbose(result, verbose)
       ELSE clientVerbose

Pending == <<"(pending)">>

\* return <value> : the invocation is over
Return(value) ==
  /\ pc' = "idle"
  /\ returned' = value
  /\ response' = <<>>
  /\ idx' = 0
  /\ hasToolCalls' = FALSE
  /\ toolResults' = <<>>
  /\ messages' = <<>>
  /\ request' = NoRequest
  /\ inFlight' = inFlight \ Awaited
  /\ UNCHANGED <<modelCalls, toolCalls>>

\* await this.anthropic.messages.create({... messages: cleanHistory ...})
IssueModelCall(history) ==
  /\ pc' = "model"
  /\ messages' = cleanConversationHistory(history)
  /\ request' = ModelRequest(systemPrompt, availableTools)
  /\ inFlight' = (inFlight \ Awaited) \cup {ModelCall}
  /\ modelCalls' = modelCalls + 1
  /\ response' = <<>>
  /\ idx' = 0
  /\ hasToolCalls' = FALSE
  /\ toolResults' = <<>>
  /\ UNCHANGED <<returned, toolCalls>>

\* AwaitTool issuing the calls of all remaining tool_use blocks at once
AwaitTool_AllAtOnce(content, j, results) ==
  /\ pc' = "tool"
  /\ response' = content
  /\ idx' = j
  /\ hasToolCalls' = TRUE
  /\ toolResults' = results
  /\ messages' = <<>>
  /\ request' = NoRequest
  /\ inFlight' = (inFlight \ Awaited) \cup
       { ToolCallOf(content[k]) :
           k \in { n \in j..Len(content) : content[n].type = "tool_use" } }
  /\ toolCalls' = toolCalls + 1
  /\ UNCHANGED <<returned, modelCalls>>

\* await this.mcpClient.callTool(content.name, content.input) for block j
AwaitTool(content, j, results) ==
  /\ pc' = "tool"
  /\ response' = content
  /\ idx' = j
  /\ hasToolCalls' = TRUE
  /\ toolResults' = results
  /\ messages' = <<>>
  /\ request' = NoRequest
  /\ inFlight' = (inFlight \ Awaited) \cup {ToolCallOf(content[j])}
  /\ toolCalls' = toolCalls + 1
  /\ UNCHANGED <<returned, modelCalls>>

\* processComplexQuery: the head of the while loop
ComplexLoop(history, round, maxRounds, text) ==
  IF LoopCondition(round, maxRounds)
  THEN IssueModelCall(history)
  ELSE Return(text)

\* ComplexEndOfResponse without the break for a response without tool calls
ComplexEndOfResponse_NoBreak(content, text, results, hadToolCalls) ==
  LET withAssistant == Append(conversationHistory, BlockMessage("assistant", content))
      withResults == Append(withAssistant, BlockMessage("user", results))
  IN /\ finalResponse' = text
     /\ IF hadToolCalls
        THEN /\ conversationHistory' = withResults
             /\ currentRound' = currentRound + 1
             /\ ComplexLoop(withResults, currentRound + 1, maxToolRounds, text)
        ELSE /\ conversationHistory' = withAssistant
             /\ currentRound' = currentRound
             /\ ComplexLoop(withAssistant, currentRound, maxToolRounds, text)

\* ComplexEndOfResponse pushing the assistant turn only for a response
\* without tool calls
ComplexEndOfResponse_NoAssistant(content, text, results, hadToolCalls) ==
  LET withAssistant == Append(conversationHistory, BlockMessage("assistant", content))
      withResults == Append(conversationHistory, BlockMessage("user", results))
  IN /\ finalResponse' = text
     /\ IF hadToolCalls
        THEN /\ conversationHistory' = withResults
             /\ currentRound' = currentRound + 1
             /\ ComplexLoop(withResults, currentRound + 1, maxToolRounds, text)
        ELSE /\ conversationHistory' = withAssistant
             /\ currentRound' = currentRound
             /\ Return(text)

\* ComplexEndOfResponse pushing the tool-result turn before the assistant turn
ComplexEndOfResponse_ResultsFirst(content, text, results, hadToolCalls) ==
  LET withAssistant == Append(conversationHistory, BlockMessage("assistant", content))
      withResults ==
        Append(Append(conversationHistory, BlockMessage("user", results)),
               BlockMessage("assistant", content))
  IN /\ finalResponse' = text
     /\ IF hadToolCalls
        THEN /\ conversationHistory' = withResults
             /\ currentRound' = currentRound + 1
             /\ ComplexLoop(withResults, currentRound + 1, maxToolRounds, text)
        ELSE /\ conversationHistory' = withAssistant
             /\ currentRound' = currentRound
             /\ Return(text)

\* processComplexQuery: after the for loop over response.content
ComplexEndOfResponse(content, text, results, hadToolCalls) ==
  LET withAssistant == Append(conversationHistory, BlockMessage("assistant", content))
      withResults == Append(withAssistant, BlockMessage("user", results))
  IN /\ finalResponse' = text
     /\ IF hadToolCalls
        THEN /\ conversationHistory' = withResults
             /\ currentRound' = currentRound + 1
             /\ ComplexLoop(withResults, currentRound + 1, maxToolRounds, text)
        ELSE /\ conversationHistory' = withAssistant
             /\ currentRound' = currentRound
             /\ Return(text)

\* processComplexQuery: the for loop over response.content from block i on,
\* up to the next await
ComplexContent(content, i, text, results, hadToolCalls) ==
  LET j == NextToolUse(content, i)
      textNow == ComplexTextAfter(content, i, j, text)
  IN IF j <= Len(content)
     THEN /\ finalResponse' = textNow
          /\ AwaitTool(content, j, results)
          /\ UNCHANGED <<conversationHistory, currentRound>>
     ELSE ComplexEndOfResponse(content, textNow, results, hadToolCalls)

\* ComplexCatch recording an assistant turn for the failed round
ComplexCatch_PartialAppend ==
  /\ Return(ComplexErrorAnswer)
  /\ conversationHistory' =
       Append(conversationHistory,
              BlockMessage("assistant", <<TextBlock(ComplexErrorAnswer)>>))
  /\ UNCHANGED <<currentRound, finalResponse>>

\* ComplexCatch taking the run's user turn back out of the transcript
ComplexCatch_RollBack ==
  /\ Return(ComplexErrorAnswer)
  /\ conversationHistory' =
       SubSeq(conversationHistory, 1, Len(conversationHistory) - 1)
  /\ UNCHANGED <<currentRound, finalResponse>>

\* processComplexQuery: the catch of the outer try
ComplexCatch ==
  /\ Return(ComplexErrorAnswer)
  /\ UNCHANGED <<conversationHistory, currentRound, finalResponse>>

\* ----------------------------------------------------------- processMessage
\* processMessage: the text recorded for a tool call
MessageToolResultText(mcpResult) ==
  IF mcpResult.defined
  THEN Join(ItemTexts(mcpResult.content), <<"\n">>)
  ELSE NoResult

\* toolResults.map(tr => `${tr.tool}: ${tr.result}`); the k-th result
\* belongs to the k-th tool_use block of the response
RECURSIVE ToolResultLines(_, _)
ToolResultLines(content, results) ==
  IF Len(content) = 0 \/ Len(results) = 0 THEN <<>>
  ELSE IF content[1].type = "tool_use"
       THEN << <<content[1].name, ": ">> \o results[1].text >>
              \o ToolResultLines(Tail(content), Tail(results))
       ELSE ToolResultLines(Tail(content), results)

\* MessageFinalResponse without the synthesized answer: the first
\* completion's text is kept even when it is blank
MessageFinalResponse_KeepBlank(finalContent, firstText, firstContent, results) ==
  IF HasToolUse(finalContent) THEN ComplexDetected
  ELSE LET newFinalResponse == ConcatText(finalContent) IN
    IF ~IsBlank(newFinalResponse) THEN newFinalResponse
    ELSE firstText

\* processMessage: finalResponse after the final completion
MessageFinalResponse(finalContent, firstText, firstContent, results) ==
  IF HasToolUse(finalContent) THEN ComplexDetected
  ELSE LET newFinalResponse == ConcatText(finalContent) IN
    IF ~IsBlank(newFinalResponse) THEN newFinalResponse
    ELSE IF IsBlank(firstText)
         THEN <<"Tool executed successfully. Results: ">>
                \o Join(ToolResultLines(firstContent, results), <<"; ">>)
         ELSE firstText

\* MessageCatch requesting the completion once more
MessageCatch_Retry ==
  /\ IssueModelCall(conversationHistory)
  /\ UNCHANGED <<currentRound, finalResponse>>

\* processMessage: the catch of the try
MessageCatch ==
  /\ Return(MessageErrorAnswer)
  /\ UNCHANGED <<currentRound, finalResponse>>

\* processMessage: the final completion is requested
IssueFinalCall(history) ==
  /\ pc' = "model2"
  /\ messages' = cleanConversationHistory(history)
  /\ request' = ModelRequest(systemPrompt, availableTools)
  /\ inFlight' = (inFlight \ Awaited) \cup {ModelCall}
  /\ modelCalls' = modelCalls + 1
  /\ idx' = 0
  /\ UNCHANGED <<returned, toolCalls, response, hasToolCalls>>

\* MessageToolUses requesting the final completion without pushing the
\* tool-result turn
MessageToolUses_NoResults(content, i, results) ==
  LET j == NextToolUse(content, i)
  IN IF j <= Len(content)
     THEN /\ AwaitTool(content, j, results)
          /\ UNCHANGED conversationHistory
     ELSE /\ UNCHANGED conversationHistory
          /\ toolResults' = results
          /\ IssueFinalCall(conversationHistory)

\* processMessage: the loop over toolUses from block i on, up to the next await
MessageToolUses(content, i, results) ==
  LET j == NextToolUse(content, i)
      withResults == Append(conversationHistory, BlockMessage("user", results))
  IN IF j <= Len(content)
     THEN /\ AwaitTool(content, j, results)
          /\ UNCHANGED conversationHistory
     ELSE /\ conversationHistory' = withResults
          /\ toolResults' = results
          /\ IssueFinalCall(withResults)

Init ==
  /\ conversationHistory = <<>>
  /\ verboseLogging = TRUE
  /\ clientVerboseLogging = TRUE
  /\ pc = "idle"
  /\ method = "none"
  /\ userMessage = <<>>
  /\ maxToolRounds = 0
  /\ currentRound = 0
  /\ finalResponse = <<>>
  /\ response = <<>>
  /\ idx = 0
  /\ hasToolCalls = FALSE
  /\ toolResults = <<>>
  /\ messages = <<>>
  /\ returned = Pending
  /\ inFlight = {}
  /\ request = NoRequest
  /\ availableTools = <<>>
  /\ systemPrompt = <<>>
  /\ listToolsCalls = 0
  /\ toolsFetch = "none"
  /\ cli = "none"
  /\ historyCopy = <<>>
  /\ reads = 0
  /\ ServerInit
  /\ runStart = 0
  /\ modelCalls = 0
  /\ toolCalls = 0
  /\ totalBlocks = 0
  /\ modelFailed = FALSE
  /\ toolFailed = FALSE

\* processComplexQuery(text, rounds) up to its first await, the
\* get_logging_mode call of syncLoggingMode
StartComplexQuery(text, rounds) ==
  /\ pc = "idle"
  /\ pc' = "sync"
  /\ method' = "complex"
  /\ userMessage' = text
  /\ maxToolRounds' = rounds
  /\ runStart' = Len(conversationHistory)
  /\ modelCalls' = 0
  /\ toolCalls' = 0
  /\ modelFailed' = FALSE
  /\ toolFailed' = FALSE
  /\ returned' = Pending
  /\ currentRound' = 0
  /\ finalResponse' = <<>>
  /\ inFlight' = inFlight \cup {LoggingCall}
  /\ UNCHANGED <<conversationHistory, verboseLogging, clientVerboseLogging,
                 response, idx, hasToolCalls, toolResults, messages, request,
                 totalBlocks>>

\* a caller invokes processComplexQuery(text, rounds)
CallProcessComplexQuery(text, rounds) ==
  /\ Len(conversationHistory) + 1 + 2 * (IF rounds > 0 THEN rounds ELSE 0)
       <= MaxHistory
  /\ StartComplexQuery(text, rounds)
  /\ UNCHANGED <<sessionVars, readVars>>

\* the get_logging_mode call settles; processComplexQuery pushes the user
\* message and enters the loop
ComplexSyncReturns(host) ==
  /\ pc = "sync"
  /\ method = "complex"
  /\ LET result == callTool(host)
         history == Append(conversationHistory, StringMessage("user", userMessage))
     IN /\ verboseLogging' = SyncedVerbose(result, verboseLogging)
        /\ clientVerboseLogging' =
             SyncedClientVerbose(result, verboseLogging, clientVerboseLogging)
        /\ conversationHistory' = history
        /\ ComplexLoop(history, 0, maxToolRounds, <<>>)
  /\ userMessage' = <<>>
  /\ UNCHANGED <<method, maxToolRounds, currentRound, finalResponse, runStart,
                 totalBlocks, modelFailed, toolFailed>>
  /\ UNCHANGED <<sessionVars, readVars>>

\* the model service answers the call of processComplexQuery
ComplexModelResponds(shape) ==
  /\ pc = "model"
  /\ method = "complex"
  /\ totalBlocks + Len(shape) <= MaxBlocks
  /\ totalBlocks' = totalBlocks + Len(shape)
  /\ ComplexContent(WithIds(shape, Len(conversationHistory)), 1, finalResponse, <<>>, FALSE)
  /\ UNCHANGED <<verboseLogging, clientVerboseLogging, method, userMessage,
                 maxToolRounds, runStart, modelFailed, toolFailed>>
  /\ UNCHANGED <<sessionVars, readVars>>

\* the model call of processComplexQuery is rejected
ComplexModelFails ==
  /\ pc = "model"
  /\ method = "complex"
  /\ ComplexCatch
  /\ modelFailed' = TRUE
  /\ UNCHANGED <<verboseLogging, clientVerboseLogging, method, userMessage,
                 maxToolRounds, runStart, totalBlocks, toolFailed>>
  /\ UNCHANGED <<sessionVars, readVars>>

\* the tool call awaited by processComplexQuery settles
ComplexToolReturns(host) ==
  /\ pc = "tool"
  /\ method = "complex"
  /\ toolFailed' = (toolFailed \/ host.kind # "ok")
  /\ LET mcpResult == callTool(host) IN
       IF ComplexToolErrorEscapes(mcpResult)
       THEN ComplexCatch
       ELSE ComplexContent(response, idx + 1, finalResponse,
              Append(toolResults, ComplexToolResult(response[idx], mcpResult)), TRUE)
  /\ UNCHANGED modelFailed
  /\ UNCHANGED <<verboseLogging, clientVerboseLogging, method, userMessage,
                 maxToolRounds, runStart, totalBlocks>>
  /\ UNCHANGED <<sessionVars, readVars>>

\* a caller invokes processMessage(text); the method runs up to the
\* get_logging_mode call of syncLoggingMode
CallProcessMessage(text) ==
  /\ pc = "idle"
  /\ Len(conversationHistory) + 4 <= MaxHistory
  /\ pc' = "sync"
  /\ method' = "message"
  /\ userMessage' = text
  /\ runStart' = Len(conversationHistory)
  /\ modelCalls' = 0
  /\ toolCalls' = 0
  /\ modelFailed' = FALSE
  /\ toolFailed' = FALSE
  /\ returned' = Pending
  /\ finalResponse' = <<>>
  /\ inFlight' = inFlight \cup {LoggingCall}
  /\ UNCHANGED <<conversationHistory, verboseLogging, clientVerboseLogging,
                 maxToolRounds, currentRound, response, idx, hasToolCalls,
                 toolResults, messages, request, totalBlocks>>
  /\ UNCHANGED <<sessionVars, readVars>>

\* the get_logging_mode call settles; processMessage pushes the user message
\* and requests the first completion
MessageSyncReturns(host) ==
  /\ pc = "sync"
  /\ method = "message"
  /\ LET result == callTool(host)
         history == Append(conversationHistory, StringMessage("user", userMessage))
     IN /\ verboseLogging' = SyncedVerbose(result, verboseLogging)
        /\ clientVerboseLogging' =
             SyncedClientVerbose(result, verboseLogging, clientVerboseLogging)
        /\ conversationHistory' = history
        /\ IssueModelCall(history)
  /\ userMessage' = <<>>
  /\ UNCHANGED <<method, maxToolRounds, currentRound, finalResponse, runStart,
                 totalBlocks, modelFailed, toolFailed>>
  /\ UNCHANGED <<sessionVars, readVars>>

\* the model service answers the first completion of processMessage
MessageModelResponds(shape) ==
  /\ pc = "model"
  /\ method = "message"
  /\ totalBlocks + Len(shape) <= MaxBlocks
  /\ totalBlocks' = totalBlocks + Len(shape)
  /\ LET content == WithIds(shape, Len(conversationHistory))
         withAssistant ==
           Append(conversationHistory, BlockMessage("assistant", content))
     IN /\ finalResponse' = ConcatText(content)
        /\ conversationHistory' = withAssistant
        /\ IF HasToolUse(content)
           THEN AwaitTool(content, NextToolUse(content, 1), <<>>)
           ELSE Return(ConcatText(content))
  /\ UNCHANGED <<verboseLogging, clientVerboseLogging, method, userMessage,
                 maxToolRounds, currentRound, runStart, modelFailed, toolFailed>>
  /\ UNCHANGED <<sessionVars, readVars>>

\* the tool call awaited by processMessage settles
MessageToolReturns(host) ==
  /\ pc = "tool"
  /\ method = "message"
  /\ toolFailed' = (toolFailed \/ host.kind # "ok")
  /\ LET mcpResult == callTool(host) IN
       IF mcpResult.threw
       THEN MessageCatch /\ UNCHANGED conversationHistory
       ELSE /\ MessageToolUses(response, idx + 1,
                 Append(toolResults,
                   ToolResultBlock(response[idx].id, MessageToolResultText(mcpResult))))
            /\ UNCHANGED <<currentRound, finalResponse>>
  /\ UNCHANGED <<modelFailed, verboseLogging, clientVerboseLogging, method,
                 userMessage, maxToolRounds, runStart, totalBlocks>>
  /\ UNCHANGED <<sessionVars, readVars>>

\* the model service answers the final completion of processMessage
MessageFinalResponds(shape) ==
  /\ pc = "model2"
  /\ method = "message"
  /\ totalBlocks + Len(shape) <= MaxBlocks
  /\ totalBlocks' = totalBlocks + Len(shape)
  /\ LET finalContent == WithIds(shape, Len(conversationHistory))
         text == MessageFinalResponse(finalContent, finalResponse, response, toolResults)
     IN /\ finalResponse' = text
        /\ conversationHistory' =
             Append(conversationHistory, BlockMessage("assistant", finalContent))
        /\ Return(text)
  /\ UNCHANGED <<verboseLogging, clientVerboseLogging, method, userMessage,
                 maxToolRounds, currentRound, runStart, modelFailed, toolFailed>>
  /\ UNCHANGED <<sessionVars, readVars>>

\* a completion requested by processMessage is rejected
MessageModelFails ==
  /\ pc \in {"model", "model2"}
  /\ method = "message"
  /\ MessageCatch
  /\ modelFailed' = TRUE
  /\ UNCHANGED <<conversationHistory, verboseLogging, clientVerboseLogging,
                 method, userMessage, maxToolRounds, runStart,
                 totalBlocks, toolFailed>>
  /\ UNCHANGED <<sessionVars, readVars>>

Next ==
  \/ \E text \in UserTexts, rounds \in RoundChoices :
       CallProcessComplexQuery(text, rounds)
  \/ \E host \in LoggingOutcomes : ComplexSyncReturns(host)
  \/ \E shape \in ResponseShapes : ComplexModelResponds(shape)
  \/ ComplexModelFails
  \/ \E host \in HostOutcomes : ComplexToolReturns(host)
  \/ \E text \in UserTexts : CallProcessMessage(text)
  \/ \E host \in LoggingOutcomes : MessageSyncReturns(host)
  \/ \E shape \in ResponseShapes : MessageModelResponds(shape)
  \/ \E host \in HostOutcomes : MessageToolReturns(host)
  \/ \E shape \in ResponseShapes : MessageFinalResponds(shape)
  \/ MessageModelFails

Spec == Init /\ [][Next]_vars

\* ------------------------------------------------- runs and clearHistory
\* LLM.clearHistory, called between two invocations
ClearHistory ==
  /\ pc = "idle"
  /\ conversationHistory' = <<>>
  /\ runStart' = 0
  /\ reads' = 0
  /\ UNCHANGED <<verboseLogging, clientVerboseLogging, pc, method, userMessage,
                 maxToolRounds, currentRound, finalResponse, response, idx,
                 hasToolCalls, toolResults, messages, returned, modelCalls,
                 toolCalls, totalBlocks, modelFailed, toolFailed, inFlight,
                 request, sessionVars, historyCopy>>

\* A smaller environment for sessions in which the transcript is cleared:
\* text blocks that are not blank, a host that answers or cannot be reached.
RunsShapes ==
  { shape \in ResponseShapes :
      \A i \in 1..Len(shape) :
        shape[i].type = "text" => ~IsBlank(shape[i].text) }
RunsHostOutcomes ==
  { [kind |-> "unreachable", content |-> <<>>],
    [kind |-> "ok", content |-> <<TextItem(<<" ">>)>>] }
RunsLoggingOutcomes == { [kind |-> "unreachable", content |-> <<>>] }

NextRuns ==
  \/ \E text \in UserTexts, rounds \in RoundChoices :
       CallProcessComplexQuery(text, rounds)
  \/ \E host \in RunsLoggingOutcomes : ComplexSyncReturns(host)
  \/ \E shape \in RunsShapes : ComplexModelResponds(shape)
  \/ ComplexModelFails
  \/ \E host \in RunsHostOutcomes : ComplexToolReturns(host)
  \/ \E text \in UserTexts : CallProcessMessage(text)
  \/ \E host \in RunsLoggingOutcomes : MessageSyncReturns(host)
  \/ \E shape \in RunsShapes : MessageModelResponds(shape)
  \/ \E host \in RunsHostOutcomes : MessageToolReturns(host)
  \/ \E shape \in RunsShapes : MessageFinalResponds(shape)
  \/ MessageModelFails
  \/ ClearHistory

\* Sessions of sequential invocations of both methods and clearHistory calls.
SpecRuns == Init /\ [][NextRuns]_vars

\* ------------------------------------- library sessions with clearHistory
\* A caller that uses the LLM directly: it may initialize it, pass any string
\* as the user's text (a blank one included), and clear the transcript
\* between two processComplexQuery invocations.
ClearUserTexts == {<<"q">>, <<" ">>}
ClearLoggingOutcomes ==
  { [kind |-> "unreachable", content |-> <<>>],
    [kind |-> "ok", content |-> <<TextItem(<<"Current logging mode: ", "quiet">>)>>] }
\* maxToolRounds values the caller may pass: any number, negative ones too.
ClearRoundChoices == (-1)..MaxHistory
\* The host's answer to tools/list when the caller initializes the LLM.
ClearListToolsOutcomes == { [kind |-> "ok", tools |-> <<SayHello>>] }

\* a caller invokes initialize() before the first invocation and it runs to
\* completion: the connection succeeds and tools/list is answered
Initialize(host) ==
  /\ cli = "none"
  /\ pc = "idle"
  /\ method = "none"
  /\ toolsFetch = "none"
  /\ availableTools' = listTools(host)
  /\ systemPrompt' = buildSystemPrompt(listTools(host))
  /\ listToolsCalls' = listToolsCalls + 1
  /\ toolsFetch' = host.kind
  /\ UNCHANGED <<conversationHistory, verboseLogging, clientVerboseLogging, pc,
                 method, userMessage, maxToolRounds, currentRound,
                 finalResponse, response, idx, hasToolCalls, toolResults,
                 messages, returned, runStart, modelCalls, toolCalls,
                 totalBlocks, modelFailed, toolFailed, request, inFlight, cli,
                 readVars,
                 serverVars>>

NextClear ==
  \/ \E text \in ClearUserTexts, rounds \in ClearRoundChoices :
       CallProcessComplexQuery(text, rounds)
  \/ \E host \in ClearLoggingOutcomes : ComplexSyncReturns(host)
  \/ \E shape \in RunsShapes : ComplexModelResponds(shape)
  \/ ComplexModelFails
  \/ \E host \in RunsHostOutcomes : ComplexToolReturns(host)
  \/ ClearHistory
  \/ \E host \in ClearListToolsOutcomes : Initialize(host)

SpecClear == Init /\ [][NextClear]_vars

\* ------------------------------------ the sanitizer and getHistory alone
\* Turns a transcript may hold: invocations that overlap (a second call made
\* while the first awaits) can leave assistant turns side by side, the model
\* may answer with no block, a blank text or a blank tool name, and a caller
\* may pass a blank text.
TranscriptTurns ==
  { StringMessage("user", <<"q">>),
    StringMessage("user", <<" ">>),
    BlockMessage("assistant", <<>>),
    BlockMessage("assistant", <<TextBlock(<<" ">>)>>),
    BlockMessage("assistant", <<TextBlock(<<"a">>)>>),
    BlockMessage("assistant", <<TextBlock(<<"b">>)>>),
    BlockMessage("assistant", <<ToolUseBlock(<<1, 1>>, " ")>>),
    BlockMessage("assistant", <<TextBlock(<<" ">>), ToolUseBlock(<<1, 2>>, "say_hello")>>),
    BlockMessage("user", <<ToolResultBlock(<<1, 2>>, NoResult)>>),
    BlockMessage("user", <<ToolResultBlock(<<1, 1>>, <<" ">>)>>) }
Transcripts == UNION { [1..n -> TranscriptTurns] : n \in 0..MaxTurns }

\* this.conversationHistory after cleanConversationHistory() ran: filter()
\* builds a new array and the loop pushes to `result`; the field is not assigned
TranscriptAfterClean_InPlace(history) == FilterValid(history)

TranscriptAfterClean(history) == history

\* LLM.getHistory: a copy of the array
getHistory(history) == [i \in 1..Len(history) |-> history[i]]

InitTranscript ==
  /\ conversationHistory \in Transcripts
  /\ verboseLogging = TRUE
  /\ clientVerboseLogging = TRUE
  /\ pc = "idle"
  /\ method = "none"
  /\ userMessage = <<>>
  /\ maxToolRounds = 0
  /\ currentRound = 0
  /\ finalResponse = <<>>
  /\ response = <<>>
  /\ idx = 0
  /\ hasToolCalls = FALSE
  /\ toolResults = <<>>
  /\ messages = <<>>
  /\ returned = Pending
  /\ inFlight = {}
  /\ request = NoRequest
  /\ availableTools = <<>>
  /\ systemPrompt = <<>>
  /\ listToolsCalls = 0
  /\ toolsFetch = "none"
  /\ cli = "none"
  /\ historyCopy = <<>>
  /\ reads = 0
  /\ ServerInit
  /\ runStart = 0
  /\ modelCalls = 0
  /\ toolCalls = 0
  /\ totalBlocks = 0
  /\ modelFailed = FALSE
  /\ toolFailed = FALSE

\* const cleanHistory = this.cleanConversationHistory()
Sanitize ==
  /\ pc = "idle"
  /\ pc' = "cleaned"
  /\ messages' = cleanConversationHistory(conversationHistory)
  /\ conversationHistory' = TranscriptAfterClean(conversationHistory)
  /\ reads' = 0
  /\ UNCHANGED <<verboseLogging, clientVerboseLogging, method, userMessage,
                 maxToolRounds, currentRound, finalResponse, response, idx,
                 hasToolCalls, toolResults, returned, runStart, modelCalls,
                 toolCalls, totalBlocks, modelFailed, toolFailed, inFlight,
                 request, sessionVars, historyCopy>>

\* a caller invokes getHistory()
GetHistory ==
  /\ pc \in {"idle", "cleaned"}
  /\ reads < MaxReads
  /\ historyCopy' = getHistory(conversationHistory)
  /\ reads' = reads + 1
  /\ UNCHANGED <<conversationHistory, verboseLogging, clientVerboseLogging, pc,
                 method, userMessage, maxToolRounds, currentRound, finalResponse,
                 response, idx, hasToolCalls, toolResults, messages, returned,
                 runStart, modelCalls, toolCalls, totalBlocks, modelFailed,
                 toolFailed, inFlight, request, sessionVars>>

NextTranscript == Sanitize \/ GetHistory

\* The sanitizer and getHistory applied to any transcript of at most
\* MaxTurns turns.
SpecTranscript == InitTranscript /\ [][NextTranscript]_vars

\* ------------------------------------------------------ ChatCLI (index.ts)
\* the maxToolRounds chatLoop passes to processComplexQuery
ChatMaxToolRounds == 5

\* String.prototype.trim()
RECURSIVE TrimStart(_)
TrimStart(t) ==
  IF Len(t) > 0 /\ t[1] \in Whitespace THEN TrimStart(Tail(t)) ELSE t
RECURSIVE TrimEnd(_)
TrimEnd(t) ==
  IF Len(t) > 0 /\ t[Len(t)] \in Whitespace
  THEN TrimEnd(SubSeq(t, 1, Len(t) - 1))
  ELSE t
Trim(t) == TrimEnd(TrimStart(t))

\* String.prototype.toLowerCase(); a word is one character of a text
LowerOf(c) ==
  IF c = "QUIT" THEN "quit" ELSE IF c = "Exit" THEN "exit" ELSE c
ToLowerCase(t) == [i \in 1..Len(t) |-> LowerOf(t[i])]

\* Lines the user may type at the prompt.
ChatLines ==
  { <<"q">>, <<" ", "q", "\n">>, <<>>, <<" ">>, <<"quit">>, <<" ", "Exit">> }

ConnectCall == [kind |-> "connect", id |-> <<>>, name |-> ""]
ListToolsCall == [kind |-> "list", id |-> <<>>, name |-> ""]

InitChat ==
  /\ conversationHistory = <<>>
  /\ verboseLogging = TRUE
  /\ clientVerboseLogging = TRUE
  /\ pc = "idle"
  /\ method = "none"
  /\ userMessage = <<>>
  /\ maxToolRounds = 0
  /\ currentRound = 0
  /\ finalResponse = <<>>
  /\ response = <<>>
  /\ idx = 0
  /\ hasToolCalls = FALSE
  /\ toolResults = <<>>
  /\ messages = <<>>
  /\ returned = Pending
  /\ inFlight = {}
  /\ request = NoRequest
  /\ availableTools = <<>>
  /\ systemPrompt = <<>>
  /\ listToolsCalls = 0
  /\ toolsFetch = "none"
  /\ cli = "constructed"
  /\ historyCopy = <<>>
  /\ reads = 0
  /\ ServerInit
  /\ runStart = 0
  /\ modelCalls = 0
  /\ toolCalls = 0
  /\ totalBlocks = 0
  /\ modelFailed = FALSE
  /\ toolFailed = FALSE

\* what the ChatCLI steps outside an invocation leave alone
runVars ==
  << conversationHistory, verboseLogging, clientVerboseLogging, pc, method,
     userMessage, maxToolRounds, currentRound, finalResponse, response, idx,
     hasToolCalls, toolResults, messages, returned, runStart, modelCalls,
     toolCalls, totalBlocks, modelFailed, toolFailed, request >>

\* ChatCLI.start up to its await: LLM.initialize awaits MCPClient.connect
ChatStart ==
  /\ cli = "constructed"
  /\ cli' = "connecting"
  /\ inFlight' = inFlight \cup {ConnectCall}
  /\ UNCHANGED <<runVars, availableTools, systemPrompt, listToolsCalls,
                 toolsFetch, readVars,
                 serverVars>>

\* connect settles: initialize goes on to listTools, or connect threw and
\* the catch of start ends the process with status 1
ChatConnectReturns(outcome) ==
  /\ cli = "connecting"
  /\ IF outcome = "ok"
     THEN /\ cli' = "listing"
          /\ listToolsCalls' = listToolsCalls + 1
          /\ inFlight' = (inFlight \ {ConnectCall}) \cup {ListToolsCall}
     ELSE /\ cli' = "failed"
          /\ listToolsCalls' = listToolsCalls
          /\ inFlight' = inFlight \ {ConnectCall}
  /\ UNCHANGED <<runVars, availableTools, systemPrompt, toolsFetch, readVars,
                 serverVars>>

\* listTools settles: initialize stores the tools and renders the prompt,
\* start prints the banner and chatLoop asks for a line
ChatListToolsReturns(host) ==
  /\ cli = "listing"
  /\ availableTools' = listTools(host)
  /\ systemPrompt' = buildSystemPrompt(listTools(host))
  /\ cli' = "prompt"
  /\ inFlight' = inFlight \ {ListToolsCall}
  /\ toolsFetch' = host.kind
  /\ UNCHANGED <<runVars, listToolsCalls, readVars,
                 serverVars>>

\* the user enters a line: quit, an empty line, or a query that starts
\* processComplexQuery(trimmedInput, 5)
ChatInput(line) ==
  /\ cli = "prompt"
  /\ LET trimmedInput == Trim(line) IN
       IF ToLowerCase(trimmedInput) \in {<<"quit">>, <<"exit">>}
       THEN /\ cli' = "exited"
            /\ UNCHANGED <<runVars, inFlight>>
       ELSE IF trimmedInput = <<>>
       THEN /\ cli' = "prompt"
            /\ UNCHANGED <<runVars, inFlight>>
       ELSE /\ Len(conversationHistory) + 2 <= MaxHistory
            /\ StartComplexQuery(trimmedInput, ChatMaxToolRounds)
            /\ cli' = "busy"
  /\ UNCHANGED <<availableTools, systemPrompt, listToolsCalls, toolsFetch,
                 readVars,
                 serverVars>>

\* ChatAnswer running start() again after each answer
ChatAnswer_Reinitialize ==
  /\ cli = "busy"
  /\ pc = "idle"
  /\ cli' = "connecting"
  /\ inFlight' = inFlight \cup {ConnectCall}
  /\ UNCHANGED <<runVars, availableTools, systemPrompt, listToolsCalls,
                 toolsFetch, readVars,
                 serverVars>>

\* ChatAnswer asking for the next line without awaiting processComplexQuery
ChatAnswer_NoAwait ==
  /\ cli = "busy"
  /\ cli' = "prompt"
  /\ UNCHANGED <<runVars, inFlight, availableTools, systemPrompt,
                 listToolsCalls, toolsFetch, readVars,
                 serverVars>>

\* processComplexQuery returned: the answer is printed and chatLoop asks
\* for the next line
ChatAnswer ==
  /\ cli = "busy"
  /\ pc = "idle"
  /\ cli' = "prompt"
  /\ UNCHANGED <<runVars, inFlight, availableTools, systemPrompt,
                 listToolsCalls, toolsFetch, readVars,
                 serverVars>>

NextChat ==
  \/ ChatStart
  \/ \E outcome \in ConnectOutcomes : ChatConnectReturns(outcome)
  \/ \E host \in ListToolsOutcomes : ChatListToolsReturns(host)
  \/ \E line \in ChatLines : ChatInput(line)
  \/ \E host \in RunsLoggingOutcomes : ComplexSyncReturns(host)
  \/ \E shape \in RunsShapes : ComplexModelResponds(shape)
  \/ ComplexModelFails
  \/ \E host \in RunsHostOutcomes : ComplexToolReturns(host)
  \/ ChatAnswer

\* A chat session: ChatCLI.start, then the lines the user enters.
SpecChat == InitChat /\ [][NextChat]_vars

\* ------------------------------------------------- calls that never settle
\* The service or the host gives no answer to the call the invocation
\* awaits, ever.  processComplexQuery passes no timeout and no abort signal
\* to messages.create or to callTool and races neither against a timer, so
\* the invocation has no step of its own to take: it stays suspended.
CallNeverSettles ==
  /\ pc \in {"sync", "model", "tool"}
  /\ method = "complex"
  /\ pc' = "hung"
  /\ UNCHANGED <<conversationHistory, verboseLogging, clientVerboseLogging,
                 method, userMessage, maxToolRounds, currentRound, finalResponse,
                 response, idx, hasToolCalls, toolResults, messages, returned,
                 runStart, modelCalls, toolCalls, totalBlocks, modelFailed,
                 toolFailed, inFlight, request, sessionVars, readVars>>

NextHang ==
  \/ \E text \in UserTexts, rounds \in RoundChoices :
       CallProcessComplexQuery(text, rounds)
  \/ \E host \in RunsLoggingOutcomes : ComplexSyncReturns(host)
  \/ \E shape \in RunsShapes : ComplexModelResponds(shape)
  \/ ComplexModelFails
  \/ \E host \in RunsHostOutcomes : ComplexToolReturns(host)
  \/ CallNeverSettles

\* Invocations of processComplexQuery whose calls are answered, fail, or are
\* never answered; a step that can be taken is taken in the end.
SpecHang == Init /\ [][NextHang]_vars /\ WF_vars(NextHang)

\* A chat session whose calls are answered, fail, or are never answered.
NextChatHang ==
  \/ NextChat
  \/ CallNeverSettles

SpecChatHang == InitChat /\ [][NextChatHang]_vars /\ WF_vars(NextChatHang)

\* -------------------------------------- runs whose logging sync always fails
\* LLM.setVerboseLogging, called between two invocations
setVerboseLogging(verbose) ==
  /\ pc = "idle"
  /\ verboseLogging' = verbose
  /\ UNCHANGED <<conversationHistory, clientVerboseLogging, pc, method,
                 userMessage, maxToolRounds, currentRound, finalResponse,
                 response, idx, hasToolCalls, toolResults, messages, returned,
                 runStart, modelCalls, toolCalls, totalBlocks, modelFailed,
                 toolFailed, inFlight, request, sessionVars, readVars>>

\* A host that never answers get_logging_mode: it cannot be reached, or it
\* answers the call with an error.
FailingLoggingOutcomes ==
  { [kind |-> "unreachable", content |-> <<>>], [kind |-> "error", content |-> <<>>] }

NextLogging ==
  \/ \E verbose \in BOOLEAN : setVerboseLogging(verbose)
  \/ \E text \in UserTexts, rounds \in RoundChoices :
       CallProcessComplexQuery(text, rounds)
  \/ \E host \in FailingLoggingOutcomes : ComplexSyncReturns(host)
  \/ \E shape \in RunsShapes : ComplexModelResponds(shape)
  \/ ComplexModelFails
  \/ \E host \in RunsHostOutcomes : ComplexToolReturns(host)

\* Invocations of processComplexQuery, with setVerboseLogging between them,
\* in which every get_logging_mode call fails.
SpecLogging == Init /\ [][NextLogging]_vars

\* ------------------------------------------- MCPServer: the browser session
\* The tool host dispatches each request to its handler as it arrives; a
\* handler runs up to its next await, so the handlers of several requests
\* interleave at their awaits.  BROWSERBASE_API_KEY and
\* BROWSERBASE_PROJECT_ID are set.
Requests == 1..MaxRequests
\* what the tool host never assigns
clientVars == <<runVars, inFlight, availableTools, systemPrompt, listToolsCalls,
                toolsFetch, cli, readVars>>
At(r, position, session) ==
  handler' = [handler EXCEPT ![r] = [at |-> position, session |-> session]]

\* a browser tool request arrives: the handler calls ensureBrowserSession,
\* which returns at once when browser and page are set and otherwise awaits
\* browserbase.sessions.create
BrowserRequest(r) ==
  /\ handler[r].at = "none"
  /\ IF browser = 0 \/ page = 0
     THEN At(r, "creating", 0)
     ELSE At(r, "page", page)
  /\ UNCHANGED <<browser, page, sessions, clientVars>>

\* browserbase.sessions.create settles; then chromium.connectOverCDP is awaited
SessionCreateSettles(r, ok) ==
  /\ handler[r].at = "creating"
  /\ IF ok
     THEN /\ sessions' = sessions + 1
          /\ At(r, "connecting", sessions + 1)
     ELSE /\ At(r, "error", 0)
          /\ UNCHANGED sessions
  /\ UNCHANGED <<browser, page, clientVars>>

\* chromium.connectOverCDP settles: this.browser is assigned; this.page is
\* the first page of the first context when there is one, else newContext
\* or newPage is awaited
ConnectSettles(r, ok, hasPage) ==
  /\ handler[r].at = "connecting"
  /\ IF ~ok
     THEN /\ At(r, "error", handler[r].session)
          /\ UNCHANGED <<browser, page>>
     ELSE /\ browser' = handler[r].session
          /\ IF hasPage
             THEN /\ page' = handler[r].session
                  /\ At(r, "page", handler[r].session)
             ELSE /\ At(r, "paging", handler[r].session)
                  /\ UNCHANGED page
  /\ UNCHANGED <<sessions, clientVars>>

\* browser.newContext / context.newPage settles: this.page is assigned
NewPageSettles(r, ok) ==
  /\ handler[r].at = "paging"
  /\ IF ok
     THEN /\ page' = handler[r].session
          /\ At(r, "page", handler[r].session)
     ELSE /\ At(r, "error", handler[r].session)
          /\ UNCHANGED page
  /\ UNCHANGED <<browser, sessions, clientVars>>

\* the page operation of the tool (goto, click, fill, screenshot,
\* textContent) settles and the handler answers the request
PageOperationSettles(r, ok) ==
  /\ handler[r].at = "page"
  /\ At(r, IF ok THEN "answered" ELSE "error", handler[r].session)
  /\ UNCHANGED <<browser, page, sessions, clientVars>>

NextServer ==
  \/ \E r \in Requests : BrowserRequest(r)
  \/ \E r \in Requests, ok \in BOOLEAN : SessionCreateSettles(r, ok)
  \/ \E r \in Requests, ok \in BOOLEAN, hasPage \in BOOLEAN :
       ConnectSettles(r, ok, hasPage)
  \/ \E r \in Requests, ok \in BOOLEAN : NewPageSettles(r, ok)
  \/ \E r \in Requests, ok \in BOOLEAN : PageOperationSettles(r, ok)

\* The tool host serving browser tool requests, in any interleaving.
SpecServer == Init /\ [][NextServer]_vars

\* ------------------------------------------------------------------ claims
\* the turns the running or last invocation appended to the transcript
Appended ==
  SubSeq(conversationHistory, runStart + 1, Len(conversationHistory))

ComplexReturned == pc = "idle" /\ method = "complex"

IsAssistantTurn(m) == m.role = "assistant"
IsToolResultTurn(m) == m.role = "user" /\ ~m.isString

RECURSIVE ToolUseIds(_)
ToolUseIds(content) ==
  IF Len(content) = 0 THEN <<>>
  ELSE IF content[1].type = "tool_use"
       THEN <<content[1].id>> \o ToolUseIds(Tail(content))
       ELSE ToolUseIds(Tail(content))

BlockIds(content) == [k \in 1..Len(content) |-> content[k].id]

RECURSIVE ToolUsesIn(_)
ToolUsesIn(turns) ==
  IF Len(turns) = 0 THEN 0
  ELSE (IF IsAssistantTurn(turns[1]) THEN Len(ToolUseIds(turns[1].content)) ELSE 0)
         + ToolUsesIn(Tail(turns))

AllResponsesRequestedTools ==
  \A i \in 1..Len(Appended) :
    IsAssistantTurn(Appended[i]) => HasToolUse(Appended[i].content)

\* C1: processComplexQuery never issues more than maxToolRounds model calls,
\* and a run in which every response requested a tool returns after exactly
\* maxToolRounds of them.
C1_RoundsBounded ==
  method = "complex" =>
    /\ modelCalls <= maxToolRounds
    /\ currentRound <= maxToolRounds
    /\ (pc = "idle" /\ ~modelFailed /\ AllResponsesRequestedTools)
         => modelCalls = maxToolRounds

C1_Witness ==
  /\ ComplexReturned /\ ~modelFailed /\ AllResponsesRequestedTools
  /\ maxToolRounds = 2 /\ modelCalls = 2

\* C2: a run that leaves the loop at the round limit, its last response still
\* requesting tools, does not return the empty string.
C2_NonEmptyAtRoundLimit ==
  (ComplexReturned /\ ~modelFailed /\ maxToolRounds >= 1
     /\ currentRound = maxToolRounds)
    => returned # <<>>

\* C3: when the first response requests no tool, one model call is made and
\* the answer is the concatenation of the response's text segments.
C3_FirstResponseConcatenated ==
  (ComplexReturned /\ ~modelFailed /\ Len(Appended) >= 2
     /\ ~HasToolUse(Appended[2].content))
    => /\ modelCalls = 1
       /\ returned = ConcatText(Appended[2].content)

\* C4: once the first response requested tools and the second did not, the
\* run has returned after exactly two model calls, whatever maxToolRounds > 1.
C4_TwoRounds ==
  (method = "complex" /\ Len(Appended) >= 4
     /\ HasToolUse(Appended[2].content)
     /\ IsAssistantTurn(Appended[4]) /\ ~HasToolUse(Appended[4].content))
    => /\ pc = "idle"
       /\ modelCalls = 2
       /\ Len(Appended) = 4

C4_Witness ==
  /\ ComplexReturned /\ Len(Appended) = 4 /\ maxToolRounds > 1
  /\ HasToolUse(Appended[2].content) /\ ~HasToolUse(Appended[4].content)
  /\ modelCalls = 2

\* C5 as stated: after a run (here: one with maxToolRounds >= 1 and no
\* rejected model call) the appended turns are the user turn, pairs of
\* assistant turn with tool calls and tool-result turn, and last an assistant
\* turn.
C5_EndsInAssistant ==
  (ComplexReturned /\ ~modelFailed /\ maxToolRounds >= 1) =>
    /\ Len(Appended) >= 2
    /\ IsAssistantTurn(Appended[Len(Appended)])

\* C5 amended: after a run the appended turns are the user turn, then one
\* pair of assistant turn with tool calls and tool-result turn per completed
\* round, and then an assistant turn without tool calls exactly when the run
\* ended on a response that requested no tool; a run that exhausts
\* maxToolRounds or whose model call fails appends nothing after the user
\* turn and the pairs.
C5_AppendedTurns ==
  ComplexReturned =>
    LET n == Len(Appended)
        converged == ~modelFailed /\ currentRound < maxToolRounds
    IN /\ n = 1 + 2 * currentRound + (IF converged THEN 1 ELSE 0)
       /\ Appended[1].role = "user" /\ Appended[1].isString
       /\ \A k \in 1..currentRound :
            /\ IsAssistantTurn(Appended[2 * k])
            /\ HasToolUse(Appended[2 * k].content)
            /\ IsToolResultTurn(Appended[2 * k + 1])
       /\ converged =>
            /\ IsAssistantTurn(Appended[n])
            /\ ~HasToolUse(Appended[n].content)

C5_Witness ==
  /\ ComplexReturned /\ ~modelFailed
  /\ currentRound = 2 /\ maxToolRounds = 2
  /\ IsToolResultTurn(Appended[Len(Appended)])

\* C6: each tool-result turn appended by processComplexQuery follows an
\* assistant turn and carries one tool_result per tool_use of that turn, with
\* the same ids in the same order.
C6_ResultsMatchRequests ==
  method = "complex" =>
    \A i \in 1..Len(Appended) :
      IsToolResultTurn(Appended[i]) =>
        /\ i > 1
        /\ IsAssistantTurn(Appended[i - 1])
        /\ \A k \in 1..Len(Appended[i].content) :
             Appended[i].content[k].type = "tool_result"
        /\ BlockIds(Appended[i].content) = ToolUseIds(Appended[i - 1].content)

C6_Witness ==
  /\ method = "complex"
  /\ \E i \in 1..Len(Appended) :
       IsToolResultTurn(Appended[i]) /\ Len(Appended[i].content) >= 2

\* C7: a tool call that fails at the host does not end the run: every tool
\* call made so far for the response has exactly one result, every tool_use
\* of a processed response was invoked, and the error answer is returned only
\* after a rejected model call.
C7_ToolFailureAbsorbed ==
  method = "complex" =>
    /\ pc = "tool" =>
         BlockIds(toolResults) = ToolUseIds(SubSeq(response, 1, idx - 1))
    /\ toolCalls = ToolUsesIn(Appended)
         + (IF pc = "tool" THEN Len(ToolUseIds(SubSeq(response, 1, idx))) ELSE 0)
    /\ (pc = "idle" /\ returned = ComplexErrorAnswer) => modelFailed
    /\ (pc = "idle" /\ ~modelFailed) =>
         \/ currentRound = maxToolRounds
         \/ ~HasToolUse(Appended[Len(Appended)].content)

C7_Witness ==
  /\ ComplexReturned /\ toolFailed /\ ~modelFailed
  /\ toolCalls >= 2 /\ modelCalls = 2
  /\ returned # ComplexErrorAnswer

\* C8: no tool result recorded by processComplexQuery has blank text.
C8_ResultTextNonBlank ==
  method = "complex" =>
    /\ \A k \in 1..Len(toolResults) : ~IsBlank(toolResults[k].text)
    /\ \A i \in 1..Len(Appended) :
         IsToolResultTurn(Appended[i]) =>
           \A k \in 1..Len(Appended[i].content) :
             ~IsBlank(Appended[i].content[k].text)

C8_Witness ==
  /\ ComplexReturned /\ ~toolFailed
  /\ \E i \in 1..Len(Appended) :
       /\ IsToolResultTurn(Appended[i])
       /\ \E k \in 1..Len(Appended[i].content) :
            Appended[i].content[k].text = NoResult

\* C9: the step in which a model call of processComplexQuery is rejected
\* returns the error answer and leaves the transcript as it was when the call
\* was issued.
C9_FailedCallLeavesTranscript ==
  [][(method = "complex" /\ ~modelFailed /\ modelFailed')
       => /\ pc' = "idle"
          /\ returned' = ComplexErrorAnswer
          /\ conversationHistory' = conversationHistory]_vars

C9_Witness ==
  /\ ComplexReturned /\ modelFailed
  /\ Len(Appended) = 3 /\ IsToolResultTurn(Appended[3])

\* C10: the step in which a model call is rejected ends the invocation: no
\* model call and no tool call is issued in it or after it.
C10_NoRetry ==
  [][(~modelFailed /\ modelFailed')
       => /\ pc' = "idle"
          /\ messages' = <<>>
          /\ modelCalls' = modelCalls
          /\ toolCalls' = toolCalls]_vars

C10_Witness ==
  /\ pc = "idle" /\ method = "message" /\ modelFailed
  /\ modelCalls = 2 /\ toolCalls >= 1

\* C11: in the raw transcript every tool-result turn comes directly after an
\* assistant turn that holds at least one tool call, whichever method
\* appended it and however many invocations came before.
C11_ResultFollowsRequest ==
  \A i \in 1..Len(conversationHistory) :
    IsToolResultTurn(conversationHistory[i]) =>
      /\ i > 1
      /\ IsAssistantTurn(conversationHistory[i - 1])
      /\ HasToolUse(conversationHistory[i - 1].content)

C11_Witness ==
  /\ pc = "idle" /\ method = "message" /\ runStart > 0
  /\ \E i \in (runStart + 1)..Len(conversationHistory) :
       IsToolResultTurn(conversationHistory[i])

\* content blocks held by the assistant turns of a transcript
RECURSIVE BlocksIn(_)
BlocksIn(turns) ==
  IF Len(turns) = 0 THEN 0
  ELSE (IF IsAssistantTurn(turns[1]) THEN Len(turns[1].content) ELSE 0)
         + BlocksIn(Tail(turns))

\* C12: after any sequence of invocations run one after the other (returned
\* normally, failed, or stopped at the round limit) and clearHistory calls,
\* no two neighbouring turns of the raw transcript are both assistant turns.
C12_NoAdjacentAssistants ==
  \A i \in 1..(Len(conversationHistory) - 1) :
    ~(IsAssistantTurn(conversationHistory[i])
        /\ IsAssistantTurn(conversationHistory[i + 1]))

\* the transcript was cleared (it holds fewer blocks than the model produced)
\* and a later processMessage invocation with a tool round has returned
C12_Witness ==
  /\ pc = "idle" /\ method = "message"
  /\ totalBlocks > BlocksIn(conversationHistory)
  /\ Len(conversationHistory) = 4
  /\ IsAssistantTurn(conversationHistory[2])
  /\ IsAssistantTurn(conversationHistory[4])

\* a turn that is entirely empty: a string turn with the empty text, or an
\* assistant turn with no tool call and no text
IsEmptyTurn(m) ==
  IF m.isString THEN m.text = <<>>
  ELSE IsAssistantTurn(m) /\ ~HasToolUse(m.content) /\ ConcatText(m.content) = <<>>

\* C13: the raw transcript never holds an entirely empty turn: an assistant
\* turn with no text and no tool call, or a user turn with the empty text,
\* is rejected instead of being stored.
C13_NoEmptyTurnStored ==
  \A i \in 1..Len(conversationHistory) : ~IsEmptyTurn(conversationHistory[i])

\* an assistant turn without tool calls
IsPlainAssistant(m) ==
  IsAssistantTurn(m) /\ (m.isString \/ ~HasToolUse(m.content))

\* the turns of f at the positions in K, in their order
Pick(f, K) ==
  LET nth(k) == CHOOSE i \in K : Cardinality({ j \in K : j < i }) = k - 1
  IN [k \in 1..Cardinality(K) |-> f[nth(k)]]

C16_OneCallInFlight ==
  method = "complex" =>
    /\ Cardinality(inFlight) <= 1
    /\ pc = "idle" => inFlight = {}
    /\ pc = "tool" =>
         /\ response[idx].type = "tool_use"
         /\ inFlight = {ToolCallOf(response[idx])}
         /\ BlockIds(toolResults) = ToolUseIds(SubSeq(response, 1, idx - 1))
    /\ pc = "model" =>
         /\ inFlight = {ModelCall}
         /\ toolCalls = ToolUsesIn(Appended)
         /\ \A i \in 1..Len(Appended) :
              (IsAssistantTurn(Appended[i]) /\ HasToolUse(Appended[i].content))
                => /\ i < Len(Appended)
                   /\ BlockIds(Appended[i + 1].content)
                        = ToolUseIds(Appended[i].content)

\* the second tool call of one response is awaited, the first has its result
C16_Witness ==
  /\ method = "complex" /\ pc = "tool"
  /\ Len(toolResults) = 1
  /\ inFlight = {ToolCallOf(response[idx])}

\* the text a response ends on: that of its last text block
HasText(content) == \E i \in 1..Len(content) : content[i].type = "text"
LastText(content) ==
  LET T == { i \in 1..Len(content) : content[i].type = "text" }
  IN IF T = {} THEN <<>>
     ELSE content[CHOOSE i \in T : \A j \in T : j <= i].text

\* the assistant turns the invocation appended that hold text, by position
TextRounds ==
  { i \in 1..Len(Appended) :
      IsAssistantTurn(Appended[i]) /\ HasText(Appended[i].content) }

\* C17: the answer of a processComplexQuery invocation that did not fail is
\* the text of the most recent response that held text: the text of a later
\* round replaces that of an earlier one, a later round without text leaves
\* it, and with no text at all the answer is empty.
C17_LatestTextReturned ==
  (ComplexReturned /\ ~modelFailed) =>
    returned =
      IF TextRounds = {} THEN <<>>
      ELSE LastText(Appended[CHOOSE i \in TextRounds :
                               \A j \in TextRounds : j <= i].content)

\* the second round held no text: the answer is the text of the first
C17_Witness ==
  /\ ComplexReturned /\ ~modelFailed /\ Len(Appended) = 5
  /\ HasText(Appended[2].content) /\ ~HasText(Appended[4].content)
  /\ returned = <<"a">>

\* C18: an invocation on an empty transcript whose first k responses request
\* tools and whose response k+1 holds text only returns after k+1 model
\* calls (k+1 <= maxToolRounds), leaves exactly 2k+2 turns and returns the
\* text of response k+1.
C18_TurnsAndAnswer ==
  LET last == conversationHistory[Len(conversationHistory)]
      k == modelCalls - 1
  IN (/\ ComplexReturned /\ ~modelFailed /\ runStart = 0 /\ modelCalls >= 1
      /\ IsAssistantTurn(last)
      /\ HasText(last.content) /\ ~HasToolUse(last.content))
       => /\ modelCalls <= maxToolRounds
          /\ Len(conversationHistory) = 2 * k + 2
          /\ \A r \in 1..k : HasToolUse(conversationHistory[2 * r].content)
          /\ last = conversationHistory[2 * k + 2]
          /\ returned = LastText(last.content)

\* k = 1: four turns, the text of the second response is the answer and has
\* replaced the text of the first
C18_Witness ==
  /\ ComplexReturned /\ ~modelFailed /\ runStart = 0 /\ modelCalls = 2
  /\ Len(conversationHistory) = 4
  /\ HasText(conversationHistory[2].content)
  /\ conversationHistory[4].content = <<TextBlock(<<"a">>)>>
  /\ returned = <<"a">>

\* names of the tools of a list, in order
ToolNamesOf(tools) == [i \in 1..Len(tools) |-> tools[i].name]

\* C20: in a chat session the tool list is requested once, before any model
\* call; once the prompt is shown neither the tool list nor the system
\* prompt changes; and every model call is sent that system prompt and the
\* schemas of exactly those tools.
C20_ToolsFetchedOnce ==
  /\ [](/\ listToolsCalls <= 1
        /\ request.sent =>
             /\ listToolsCalls = 1
             /\ cli = "busy"
             /\ request.system = systemPrompt
             /\ request.hasTools = (Len(availableTools) > 0)
             /\ ToolNamesOf(request.tools) = ToolNamesOf(availableTools))
  /\ [][(cli \in {"prompt", "busy", "exited"}) =>
          (/\ availableTools' = availableTools
           /\ systemPrompt' = systemPrompt
           /\ listToolsCalls' = listToolsCalls)]_vars

\* the second query of a session with two tools waits for its model call
C20_Witness ==
  /\ cli = "busy" /\ pc = "model" /\ runStart > 0
  /\ listToolsCalls = 1 /\ Len(availableTools) = 2
  /\ request.system = systemPrompt /\ Len(request.tools) = 2

\* C21: a session whose tools/list request found the host unreachable has
\* failed to initialize: it never sends a model call.
C21_FetchFailureEndsSession ==
  toolsFetch = "unreachable" =>
    /\ cli \notin {"prompt", "busy"}
    /\ ~request.sent

\* the text processComplexQuery records for a call that succeeded and
\* returned no content
EmptySuccessText ==
  ComplexToolResultText(callTool([kind |-> "ok", content |-> <<>>]))

\* C22: the text recorded for a tool call that failed at the host (error
\* answer or host unreachable) differs from the text recorded for a call
\* that succeeded with no content.
C22_FailureTextDistinct ==
  (method = "complex" /\ toolFailed /\ toolCalls = 1
     /\ Len(Appended) >= 3 /\ IsToolResultTurn(Appended[3]))
    => Appended[3].content[1].text # EmptySuccessText

\* C23: an invocation whose awaited call is never answered is not left
\* suspended: a step that ends the wait (a timeout handled as a failure of
\* the call) can still be taken.
C23_HungCallCutOff ==
  (method = "complex" /\ pc = "hung") => ENABLED <<NextHang>>_vars

\* C24: once a tool call of the invocation found the host unreachable, the
\* model calls that follow offer no tool schemas.
C24_NoToolsAfterHostLost ==
  (cli = "busy" /\ toolFailed /\ request.sent) => ~request.hasTools


\* C25: clearHistory makes the transcript empty and leaves the tool list, the
\* system prompt and the logging flag as they were; the first model call of
\* the next run is given a snapshot holding only that run's user turn.
C25_ClearHistoryFrame ==
  /\ [][(Len(conversationHistory') < Len(conversationHistory)) =>
          (/\ conversationHistory' = <<>>
           /\ availableTools' = availableTools
           /\ systemPrompt' = systemPrompt
           /\ verboseLogging' = verboseLogging
           /\ clientVerboseLogging' = clientVerboseLogging)]_vars
  /\ []((pc = "model" /\ modelCalls = 1 /\ runStart = 0) =>
          (/\ Len(conversationHistory) = 1
           /\ conversationHistory[1].role = "user"
           /\ messages = <<conversationHistory[1]>>))


\* C26: a run only appends to the raw transcript: every step of a
\* processComplexQuery or processMessage invocation leaves the turns already
\* stored where they are, so the transcript before an invocation is a prefix
\* of the transcript after it, over any number of successive invocations.
C26_AppendOnly ==
  [][(/\ Len(conversationHistory) <= Len(conversationHistory')
      /\ SubSeq(conversationHistory', 1, Len(conversationHistory))
           = conversationHistory)]_vars
\* a later invocation has returned after appending to an earlier one's turns
C26_Witness ==
  /\ pc = "idle"
  /\ returned # Pending
  /\ runStart > 1
  /\ Len(conversationHistory) > runStart + 1


\* C27: in the chat CLI the runs of a session never overlap: while a line can
\* be read no run is active and no call is pending, a run is active only
\* while the CLI awaits it, and a run starts only from the prompt after the
\* previous one has returned or failed.
C27_RunsNeverOverlap ==
  /\ []((cli = "prompt") => (pc = "idle" /\ inFlight = {}))
  /\ []((pc # "idle") => (cli = "busy"))
  /\ [](Cardinality(inFlight) <= 1)
  /\ [][(pc = "idle" /\ pc' # "idle") =>
          (cli = "prompt" /\ cli' = "busy" /\ inFlight = {})]_vars
\* a second query of the session is being processed
C27_Witness ==
  /\ cli = "busy"
  /\ pc = "model"
  /\ runStart > 0
  /\ Cardinality(inFlight) = 1


\* C28: whenever an invocation of processMessage or processComplexQuery has
\* returned, every assistant turn of the transcript that holds tool calls is
\* immediately followed by a tool-result turn answering exactly those calls,
\* in order; no tool call is left unanswered.
C28_EveryToolCallAnswered ==
  (pc = "idle") =>
    \A i \in 1..Len(conversationHistory) :
      (/\ IsAssistantTurn(conversationHistory[i])
       /\ HasToolUse(conversationHistory[i].content)) =>
        /\ i < Len(conversationHistory)
        /\ IsToolResultTurn(conversationHistory[i + 1])
        /\ BlockIds(conversationHistory[i + 1].content)
             = ToolUseIds(conversationHistory[i].content)


\* C29: in sessions of processComplexQuery invocations only, every snapshot
\* passed to the model starts with a user-role message and alternates
\* strictly between user-role and assistant-role messages.
C29_SnapshotAlternates ==
  (pc = "model" /\ method = "complex") =>
    /\ Len(messages) > 0
    /\ messages[1].role = "user"
    /\ \A i \in 1..(Len(messages) - 1) : messages[i].role # messages[i + 1].role


\* C30: in every snapshot passed to the model each tool-result message comes
\* right after the assistant message whose tool calls it answers, and of an
\* assistant turn with tool calls and the tool-result turn stored after it
\* the sanitizer keeps both or neither.
C30_PairsKeptTogether ==
  (pc \in {"model", "model2"}) =>
    /\ \A i \in 1..Len(messages) :
         IsToolResultTurn(messages[i]) =>
           /\ i > 1
           /\ IsAssistantTurn(messages[i - 1])
           /\ ToolUseIds(messages[i - 1].content) = BlockIds(messages[i].content)
    /\ \A i \in 1..(Len(conversationHistory) - 1) :
         (/\ IsAssistantTurn(conversationHistory[i])
          /\ HasToolUse(conversationHistory[i].content)
          /\ IsToolResultTurn(conversationHistory[i + 1])) =>
           (validateMessage(conversationHistory[i])
              <=> validateMessage(conversationHistory[i + 1]))


\* C31: for every processComplexQuery invocation, whatever the user's text
\* is, the snapshot passed to the first model call of the run ends with the
\* user turn of that run.
C31_FirstSnapshotEndsWithUserTurn ==
  (pc = "model" /\ method = "complex" /\ modelCalls = 1) =>
    /\ Len(messages) > 0
    /\ messages[Len(messages)] = conversationHistory[runStart + 1]


\* the turn a step appended last, and whether the step appended one
LastAppended == conversationHistory'[Len(conversationHistory')]
StepAppended == Len(conversationHistory') = Len(conversationHistory) + 1
\* the answer the claim lists for a processMessage that executed tools and
\* got its second completion: firstText is the first completion's text
ListedAnswer(second, firstText, answer) ==
  IF HasToolUse(second) THEN answer = ComplexDetected
  ELSE IF ~IsBlank(ConcatText(second)) THEN answer = ConcatText(second)
  ELSE IF ~IsBlank(firstText) THEN answer = firstText
  ELSE /\ Len(answer) > 1
       /\ answer[1] = "Tool executed successfully. Results: "
\* a processMessage that executed tools returns
MessageWithToolsReturns ==
  method = "message" /\ pc = "model2" /\ pc' = "idle"

\* C32 as stated: when processMessage executed at least one tool its answer
\* is not blank and is the second completion's text if that is not blank,
\* else the first completion's text if that is not blank, else a synthesized
\* string listing the tool results, or the fixed "Complex multi-tool request
\* detected" message when the second completion requests tools again.
C32_AnswerAsListed ==
  [][MessageWithToolsReturns =>
       (/\ ~IsBlank(returned')
        /\ StepAppended
        /\ ListedAnswer(LastAppended.content, finalResponse, returned'))]_vars
\* C32 amended: the same, or the fixed error message when the second
\* completion fails; the answer is not blank in every case.
C32_AnswerNeverBlank ==
  [][MessageWithToolsReturns =>
       (/\ ~IsBlank(returned')
        /\ Len(returned') > 0
        /\ IF StepAppended
           THEN ListedAnswer(LastAppended.content, finalResponse, returned')
           ELSE returned' = MessageErrorAnswer)]_vars
\* processMessage returned the synthesized answer listing the tool results
C32_Witness ==
  /\ pc = "idle"
  /\ method = "message"
  /\ toolCalls > 0
  /\ Len(returned) > 1
  /\ returned[1] = "Tool executed successfully. Results: "


\* C33: in the chat CLI every input other than quit/exit is followed by a
\* new prompt in the end.  In the finite form: while the CLI awaits the run
\* an input started, the session always has a step left to take towards the
\* next prompt.
C33_PromptFollowsInput ==
  (cli = "busy") => ENABLED <<NextChatHang>>_vars


\* C34: when the get_logging_mode call at the start of a run fails, the
\* orchestrator's and the client's verbose-logging flags are both verbose
\* afterwards, whatever they were before.  (Checked where every such call
\* fails: each step that leaves the sync is a failed sync.)
C34_FailedSyncSetsVerbose ==
  [][(pc = "sync" /\ pc' # "sync") =>
       (verboseLogging' /\ clientVerboseLogging')]_vars

\* C35: the tool host holds at most one browser session: over any
\* interleaving of browser tool requests ensureBrowserSession creates a
\* session at most once.
C35_OneBrowserSession ==
  sessions <= 1


\* C36: processComplexQuery with maxRounds <= 0 makes no model call, appends
\* only the user turn to the transcript, and returns the empty string: when
\* its logging sync is over the invocation returns at once.
C36_NoRoundsNoModelCall ==
  [][(method = "complex" /\ pc = "sync" /\ pc' # "sync" /\ maxToolRounds <= 0) =>
       (/\ pc' = "idle"
        /\ returned' = <<>>
        /\ modelCalls' = 0
        /\ inFlight' = {}
        /\ conversationHistory' =
             Append(conversationHistory, StringMessage("user", userMessage)))]_vars
\* an invocation with a negative round limit has returned on a transcript
\* that earlier runs had filled
C36_Witness ==
  /\ pc = "idle"
  /\ method = "complex"
  /\ maxToolRounds < 0
  /\ returned = <<>>
  /\ modelCalls = 0
  /\ runStart > 1
  /\ Len(conversationHistory) = runStart + 1

====
